---- MODULE Spec2Model ----
(***************************************************************************)
(* Evaluation-form univariate polynomials (poly/src/evaluations/univariate)*)
(* and the parity function exercised by ec/src/hashing/tests.rs.           *)
(*                                                                         *)
(* An Evaluations value is the record [evals, domain].  A caller holds the *)
(* values a, b (and c) and applies the operators of the Rust module to    *)
(* them; a panic (a failed assert_eq! or a failed bounds check) is the     *)
(* field `panicked` of the outcome of the call.                            *)
(***************************************************************************)
EXTENDS Integers, Sequences, FiniteSets, TLC

VARIABLES pc, a, b, c, last, out, work, cut, pos, element, bit

vars == <<pc, a, b, c, last, out, work, cut, pos, element, bit>>

---------------------------------------------------------------------------
(* Bounds of the model. *)

\* longest value sequence a caller hands to from_vec_and_domain
MaxLen == 2

\* most workers the entrywise loops are split over
MaxWorkers == 2

---------------------------------------------------------------------------
(* The field F: a prime field, elements are the least non-negative         *)
(* residues 0 .. P-1.                                                      *)

\* the modulus of the field the model instantiates F with
P == 5

Field == 0 .. (P - 1)

FZero == 0

FAdd(x, y) == (x + y) % P

FSub(x, y) == (x + P - y) % P

FMul(x, y) == (x * y) % P

RECURSIVE FPow(_, _)
FPow(x, n) == IF n = 0 THEN 1 % P ELSE FMul(x, FPow(x, n - 1))

\* multiplicative inverse of a non-zero element (Fermat)
FInv(x) == FPow(x, P - 2)

---------------------------------------------------------------------------
(* Evaluation domains: descriptors compared by exact equality.  Two of    *)
(* them have the same size and differ in their coset offset.               *)

Domains ==
    { [size |-> 1, offset |-> 1],
      [size |-> 2, offset |-> 1],
      [size |-> 2, offset |-> 2] }

\* the value sequences a caller can build: Vec<F> of length 0 .. MaxLen
Vecs == UNION { [1 .. n -> Field] : n \in 0 .. MaxLen }

---------------------------------------------------------------------------
(* Evaluations<F, D>: [evals : Vec<F>, domain : D]                         *)

\* zero with one entry too few
zero_short(domain) ==
    [evals |-> [i \in 1 .. (domain.size - 1) |-> FZero], domain |-> domain]

\* Evaluations::zero: vec![F::zero(); domain.size()]
zero(domain) ==
    [evals |-> [i \in 1 .. domain.size |-> FZero], domain |-> domain]

\* Evaluations::from_vec_and_domain: stores both, checks nothing
from_vec_and_domain(evals, domain) ==
    [evals |-> evals, domain |-> domain]

\* every value the two constructors can return
Constructed ==
    { zero(d) : d \in Domains }
        \cup { from_vec_and_domain(v, d) : v \in Vecs, d \in Domains }

\* the entrywise step |(a, b)| *a op= b of the closures
EntryOp(kind, x, y) ==
    CASE kind = "add" -> FAdd(x, y)
      [] kind = "sub" -> FSub(x, y)
      [] kind = "mul" -> FMul(x, y)

\* cfg_iter_mut!(xs).zip(&ys).for_each(|(a, b)| *a op= b), one worker:
\* zip stops at the shorter sequence, the entries of xs beyond it are
\* not visited
zip_for_each(kind, xs, ys) ==
    [i \in 1 .. Len(xs) |->
        IF i <= Len(ys) THEN EntryOp(kind, xs[i], ys[i]) ELSE xs[i]]

\* outcome of a call that panicked before writing anything
Panicked(self, other) ==
    [panicked |-> TRUE, self |-> self, other |-> other, ret |-> <<>>]

\* outcome of an in-place call that returned
Stored(self, other) ==
    [panicked |-> FALSE, self |-> self, other |-> other, ret |-> <<>>]

\* outcome of a by-value call on (self, other) whose in-place body gave r
Returned(self, r) ==
    [panicked |-> r.panicked, self |-> self, other |-> r.other,
     ret |-> IF r.panicked THEN <<>> ELSE <<r.self>>]

\* MulAssign::mul_assign
mul_assign(self, other) ==
    IF self.domain # other.domain
    THEN Panicked(self, other)
    ELSE Stored([self EXCEPT !.evals = zip_for_each("mul", @, other.evals)],
                other)

\* add_assign that compares the sizes of the domains only
add_assign_size_check(self, other) ==
    IF self.domain.size # other.domain.size
    THEN Panicked(self, other)
    ELSE Stored([self EXCEPT !.evals = zip_for_each("add", @, other.evals)],
                other)

\* add_assign that subtracts
add_assign_subtracts(self, other) ==
    IF self.domain # other.domain
    THEN Panicked(self, other)
    ELSE Stored([self EXCEPT !.evals = zip_for_each("sub", @, other.evals)],
                other)

\* AddAssign::add_assign
add_assign(self, other) ==
    IF self.domain # other.domain
    THEN Panicked(self, other)
    ELSE Stored([self EXCEPT !.evals = zip_for_each("add", @, other.evals)],
                other)

\* sub_assign that subtracts the wrong way round
sub_assign_swapped(self, other) ==
    IF self.domain # other.domain
    THEN Panicked(self, other)
    ELSE Stored([self EXCEPT
                    !.evals = [i \in 1 .. Len(@) |->
                                  IF i <= Len(other.evals)
                                  THEN FSub(other.evals[i], @[i])
                                  ELSE @[i]]],
                other)

\* SubAssign::sub_assign
sub_assign(self, other) ==
    IF self.domain # other.domain
    THEN Panicked(self, other)
    ELSE Stored([self EXCEPT !.evals = zip_for_each("sub", @, other.evals)],
                other)

\* what the batch-inversion collaborator may do with a zero entry: leave
\* it zero, or signal (Fault)
Fault == P

ZeroOutcomes == {FZero, Fault}

\* ark_ff::batch_inversion on a slice: every non-zero entry becomes its
\* inverse; a zero entry is the collaborator's business (zinv)
batch_inversion(v, zinv) ==
    IF zinv = Fault /\ \E i \in 1 .. Len(v) : v[i] = FZero
    THEN [panicked |-> TRUE, v |-> v]
    ELSE [panicked |-> FALSE,
          v |-> [i \in 1 .. Len(v) |->
                    IF v[i] = FZero THEN zinv ELSE FInv(v[i])]]

\* div_assign that multiplies by the divisor instead of its inverse
div_assign_no_inversion(self, other, zinv) ==
    IF self.domain # other.domain
    THEN Panicked(self, other)
    ELSE Stored([self EXCEPT
                    !.evals = zip_for_each("mul", @, other.evals)],
                other)

\* div_assign that inverts the divisor itself, not a copy of it
div_assign_inverts_divisor(self, other, zinv) ==
    IF self.domain # other.domain
    THEN Panicked(self, other)
    ELSE LET inv == batch_inversion(other.evals, zinv)
         IN  IF inv.panicked
             THEN Panicked(self, other)
             ELSE Stored([self EXCEPT
                             !.evals = zip_for_each("mul", @, inv.v)],
                         [other EXCEPT !.evals = inv.v])

\* DivAssign::div_assign
div_assign(self, other, zinv) ==
    IF self.domain # other.domain
    THEN Panicked(self, other)
    ELSE LET other_copy == other
             inv == batch_inversion(other_copy.evals, zinv)
         IN  IF inv.panicked
             THEN Panicked(self, other)
             ELSE Stored([self EXCEPT
                             !.evals = zip_for_each("mul", @, inv.v)],
                         other)

\* Mul<&Evaluations>::mul: clone, *=, return
mul(self, other) == Returned(self, mul_assign(self, other))

\* Add::add
add(self, other) == Returned(self, add_assign(self, other))

\* Sub::sub
sub(self, other) == Returned(self, sub_assign(self, other))

\* Div::div
div(self, other, zinv) == Returned(self, div_assign(self, other, zinv))

\* Mul<F>::mul: clone, multiply every entry by elem, return
mul_scalar(self, elem) ==
    [panicked |-> FALSE, self |-> self,
     ret |-> << [self EXCEPT
                   !.evals = [i \in 1 .. Len(@) |-> FMul(@[i], elem)]] >>]

\* index that hands out a default value beyond the end
index_default(self, i) ==
    [panicked |-> FALSE, self |-> self,
     ret |-> IF i < Len(self.evals) THEN <<self.evals[i + 1]>>
             ELSE <<FZero>>]

\* Index::index: &self.evals[index], Vec's bounds check (index from 0)
index(self, i) ==
    IF i < Len(self.evals)
    THEN [panicked |-> FALSE, self |-> self, ret |-> <<self.evals[i + 1]>>]
    ELSE [panicked |-> TRUE, self |-> self, ret |-> <<>>]

---------------------------------------------------------------------------
(* The caller.  a is the left operand, b the right one, c a third value   *)
(* (ring laws only).  last records the call made last and the operands as *)
(* they were when it was made; out is what the call gave back.             *)

NoCall(x, y) ==
    [op |-> "none", s |-> FZero, idx |-> 0, zinv |-> FZero,
     lhs |-> x, rhs |-> y]

Call(op, x, y) == [NoCall(x, y) EXCEPT !.op = op]

NoOut == [panicked |-> FALSE, ret |-> <<>>]

Out(r) == [panicked |-> r.panicked, ret |-> r.ret]

parVars == <<work, cut, pos>>

parityVars == <<element, bit>>

\* values of the variables a specification does not use
ParIdle == work = <<>> /\ cut = <<>> /\ pos = <<>>

ParityIdle == element = [h |-> 0, v |-> FZero] /\ bit = FALSE

\* let a = Evaluations::zero(d) or Evaluations::from_vec_and_domain(v, d)
InitA ==
    /\ pc = "haveA"
    /\ a \in Constructed
    /\ b = a
    /\ last = NoCall(a, a)
    /\ out = NoOut

Init == InitA /\ c = <<>> /\ ParIdle /\ ParityIdle

\* a[i]
Index(i) ==
    /\ pc = "haveA"
    /\ LET r == index(a, i)
       IN  /\ a' = r.self
           /\ out' = Out(r)
    /\ last' = [Call("index", a, b) EXCEPT !.idx = i]
    /\ pc' = "doneA"
    /\ UNCHANGED <<b, c, parVars, parityVars>>

\* &a * s
MulScalar(s) ==
    /\ pc = "haveA"
    /\ LET r == mul_scalar(a, s)
       IN  /\ a' = r.self
           /\ out' = Out(r)
    /\ last' = [Call("mul_scalar", a, b) EXCEPT !.s = s]
    /\ pc' = "doneA"
    /\ UNCHANGED <<b, c, parVars, parityVars>>

\* let b = Evaluations::zero(d)
Zero(d) ==
    /\ pc = "haveA"
    /\ b' = zero(d)
    /\ last' = Call("zero", a, b')
    /\ out' = NoOut
    /\ pc' = "doneB"
    /\ UNCHANGED <<a, c, parVars, parityVars>>

\* let b = Evaluations::from_vec_and_domain(v, d)
FromVecAndDomain(v, d) ==
    /\ pc = "haveA"
    /\ b' = from_vec_and_domain(v, d)
    /\ last' = Call("from_vec_and_domain", a, b')
    /\ out' = NoOut
    /\ pc' = "doneB"
    /\ UNCHANGED <<a, c, parVars, parityVars>>

\* the caller's binding of the operands after the call `call` gave r
Binary(call, r) ==
    /\ pc = "ready"
    /\ a' = r.self
    /\ b' = r.other
    /\ out' = Out(r)
    /\ last' = call
    /\ pc' = "done"
    /\ UNCHANGED <<c, parVars, parityVars>>

\* a += &b
AddAssign == Binary(Call("add_assign", a, b), add_assign(a, b))

\* a -= &b
SubAssign == Binary(Call("sub_assign", a, b), sub_assign(a, b))

\* a *= &b
MulAssign == Binary(Call("mul_assign", a, b), mul_assign(a, b))

\* &a + &b
Add == Binary(Call("add", a, b), add(a, b))

\* &a - &b
Sub == Binary(Call("sub", a, b), sub(a, b))

\* &a * &b
Mul == Binary(Call("mul", a, b), mul(a, b))

\* the collaborator's choice matters only when the divisor has a zero entry
ZeroChoices(v) ==
    IF \E i \in 1 .. Len(v) : v[i] = FZero THEN ZeroOutcomes ELSE {FZero}

\* a /= &b
DivAssign(zinv) ==
    Binary([Call("div_assign", a, b) EXCEPT !.zinv = zinv],
           div_assign(a, b, zinv))

\* &a / &b
Div(zinv) ==
    Binary([Call("div", a, b) EXCEPT !.zinv = zinv], div(a, b, zinv))

\* &(&a / &b) * &b
div_then_mul(x, y, zinv) ==
    LET q == div(x, y, zinv)
    IN  IF q.panicked THEN q ELSE mul(q.ret[1], y)

DivThenMul(zinv) ==
    Binary([Call("div_then_mul", a, b) EXCEPT !.zinv = zinv],
           [div_then_mul(a, b, zinv) EXCEPT !.self = a])

\* the caller goes on with the operands as they are
Continue ==
    /\ pc \in {"done", "doneA", "doneB"}
    /\ pc' = IF pc = "doneA" THEN "haveA" ELSE "ready"
    /\ last' = NoCall(a, b)
    /\ out' = NoOut
    /\ UNCHANGED <<a, b, c, parVars, parityVars>>

\* let a = <the Evaluations the call returned>
Rebind ==
    /\ pc \in {"done", "doneA"}
    /\ last.op # "index"
    /\ out.ret # <<>>
    /\ a' = out.ret[1]
    /\ b' = IF pc = "done" THEN b ELSE a'
    /\ pc' = IF pc = "done" THEN "ready" ELSE "haveA"
    /\ last' = NoCall(a', b')
    /\ out' = NoOut
    /\ UNCHANGED <<c, parVars, parityVars>>

Next ==
    \/ \E i \in 0 .. (MaxLen + 1) : Index(i)
    \/ \E s \in Field : MulScalar(s)
    \/ \E d \in Domains : Zero(d)
    \/ \E v \in Vecs, d \in Domains : FromVecAndDomain(v, d)
    \/ AddAssign
    \/ SubAssign
    \/ MulAssign
    \/ Add
    \/ Sub
    \/ Mul
    \/ \E zinv \in ZeroChoices(b.evals) : DivAssign(zinv)
    \/ \E zinv \in ZeroChoices(b.evals) : Div(zinv)
    \/ \E zinv \in ZeroChoices(b.evals) : DivThenMul(zinv)
    \/ Continue
    \/ Rebind

Spec == Init /\ [][Next]_vars

---------------------------------------------------------------------------
(* The ring laws: a caller with three values over one domain.             *)

\* the value of &x + &y (the operands are over one domain)
Sum(x, y) == add(x, y).ret[1]

\* the value of &x * &y
Product(x, y) == mul(x, y).ret[1]

\* the value of &x - &y
Difference(x, y) == sub(x, y).ret[1]

InitRing == InitA /\ c = a /\ ParIdle /\ ParityIdle

\* let b = from_vec_and_domain(vb, a.domain()) and
\* let c = from_vec_and_domain(vc, a.domain()), both vectors with
\* domain.size() entries (a is any value the constructors return)
RingOperands(vb, vc) ==
    /\ pc = "haveA"
    /\ b' = from_vec_and_domain(vb, a.domain)
    /\ c' = from_vec_and_domain(vc, a.domain)
    /\ last' = Call("from_vec_and_domain", a, b')
    /\ out' = NoOut
    /\ pc' = "ready3"
    /\ UNCHANGED <<a, parVars, parityVars>>

\* both sides of every law, and Evaluations::zero(a.domain())
RingLaws ==
    /\ pc = "ready3"
    /\ out' = [panicked |-> FALSE,
               ret |-> << Sum(Sum(a, b), c), Sum(a, Sum(b, c)),
                          Sum(a, b), Sum(b, a),
                          Product(a, b), Product(b, a),
                          Difference(a, a), zero(a.domain) >>]
    /\ last' = Call("ring_laws", a, b)
    /\ pc' = "done3"
    /\ UNCHANGED <<a, b, c, parVars, parityVars>>

NextRing ==
    \/ \E vb, vc \in [1 .. a.domain.size -> Field] : RingOperands(vb, vc)
    \/ RingLaws

SpecRing == InitRing /\ [][NextRing]_vars

---------------------------------------------------------------------------
(* The entrywise loops under the feature "parallel": cfg_iter_mut! is      *)
(* par_iter_mut, the index range of the loop is split in contiguous chunks *)
(* and every chunk is walked by a worker of its own; the workers run in    *)
(* any interleaving.  With one worker this is iter_mut.                    *)

\* the values the constructors return with domain.size() entries
ConstructedSized ==
    { zero(d) : d \in Domains }
        \cup UNION { { from_vec_and_domain(v, d) :
                         v \in [1 .. d.size -> Field] } : d \in Domains }

Min(x, y) == IF x <= y THEN x ELSE y

\* the ways to split the indices 1 .. n over 1 .. MaxWorkers workers:
\* worker k walks cuts[k] + 1 .. cuts[k + 1]
Cuts(n) ==
    { cs \in UNION { [1 .. (w + 1) -> 0 .. n] : w \in 1 .. MaxWorkers } :
        /\ cs[1] = 0
        /\ cs[Len(cs)] = n
        /\ \A k \in 1 .. (Len(cs) - 1) : cs[k] <= cs[k + 1] }

\* a split in which a chunk runs one index into the next chunk
chunk_end_overlapping(cuts, k) ==
    IF cuts[k + 1] < cuts[Len(cuts)] THEN cuts[k + 1] + 1 ELSE cuts[k + 1]

\* the last index of worker k's chunk
chunk_end(cuts, k) == cuts[k + 1]

\* the closure of the loop of `op` applied at index i
closure(op, xs, ys, s, i) ==
    CASE op = "add_assign" -> EntryOp("add", xs[i], ys[i])
      [] op = "sub_assign" -> EntryOp("sub", xs[i], ys[i])
      [] op \in {"mul_assign", "div_assign"} -> EntryOp("mul", xs[i], ys[i])
      [] op = "mul_scalar" -> FMul(xs[i], s)

InitPar ==
    /\ pc = "haveA"
    /\ a \in ConstructedSized
    /\ b = a
    /\ c = <<>>
    /\ last = NoCall(a, a)
    /\ out = NoOut
    /\ ParIdle
    /\ ParityIdle

\* let b = from_vec_and_domain(vb, a.domain())
ParOperand(vb) ==
    /\ pc = "haveA"
    /\ b' = from_vec_and_domain(vb, a.domain)
    /\ last' = NoCall(a, b')
    /\ pc' = "ready"
    /\ UNCHANGED <<a, c, out, parVars, parityVars>>

\* the call up to its loop: the assertion, the copies, the split
StartLoop(op, s, zinv, cuts) ==
    /\ pc = "ready"
    /\ op = "mul_scalar" \/ a.domain = b.domain
    /\ LET inv == batch_inversion(b.evals, zinv)
           ys == CASE op = "div_assign" -> inv.v
                   [] op = "mul_scalar" -> <<>>
                   [] OTHER -> b.evals
           n == IF op = "mul_scalar" THEN Len(a.evals)
                ELSE Min(Len(a.evals), Len(ys))
       IN  /\ op = "div_assign" => ~inv.panicked
           /\ cuts \in Cuts(n)
           /\ work' = [xs |-> a.evals, ys |-> ys]
    /\ cut' = cuts
    /\ pos' = [k \in 1 .. (Len(cuts) - 1) |-> cuts[k]]
    /\ last' = [Call(op, a, b) EXCEPT !.s = s, !.zinv = zinv]
    /\ pc' = "loop"
    /\ UNCHANGED <<a, b, c, out, parityVars>>

\* worker k does the next entry of its chunk
WorkerStep(k) ==
    /\ pc = "loop"
    /\ k \in DOMAIN pos
    /\ pos[k] < chunk_end(cut, k)
    /\ LET i == pos[k] + 1
       IN  /\ work' = [work EXCEPT
                         !.xs[i] = closure(last.op, work.xs, work.ys,
                                           last.s, i)]
           /\ pos' = [pos EXCEPT ![k] = i]
    /\ UNCHANGED <<pc, a, b, c, last, out, cut, parityVars>>

\* every worker is through: the loop ends and the call returns
Join ==
    /\ pc = "loop"
    /\ \A k \in DOMAIN pos : pos[k] >= chunk_end(cut, k)
    /\ IF last.op = "mul_scalar"
       THEN /\ out' = [panicked |-> FALSE,
                       ret |-> << [a EXCEPT !.evals = work.xs] >>]
            /\ a' = a
       ELSE /\ out' = NoOut
            /\ a' = [a EXCEPT !.evals = work.xs]
    /\ work' = <<>>
    /\ cut' = <<>>
    /\ pos' = <<>>
    /\ pc' = "done"
    /\ UNCHANGED <<b, c, last, parityVars>>

LoopOps == {"add_assign", "sub_assign", "mul_assign", "div_assign"}

NextPar ==
    \/ \E vb \in [1 .. a.domain.size -> Field] : ParOperand(vb)
    \/ \E op \in LoopOps, zinv \in ZeroChoices(b.evals),
          cuts \in UNION { Cuts(n) : n \in 0 .. Len(a.evals) } :
           /\ zinv # FZero => op = "div_assign"
           /\ StartLoop(op, FZero, zinv, cuts)
    \/ \E s \in Field, cuts \in Cuts(Len(a.evals)) :
           StartLoop("mul_scalar", s, FZero, cuts)
    \/ \E k \in 1 .. MaxWorkers : WorkerStep(k)
    \/ Join

SpecPar == InitPar /\ [][NextPar]_vars

---------------------------------------------------------------------------
(* Parity.  An element of the tower is [h, v]: at height 0, v is a residue *)
(* of the prime field Fq; at height h > 0, v is the sequence of its        *)
(* coefficients, lowest first, each of height h - 1.                       *)

\* the modulus of the prime field the model takes for Fq
Q == 11

\* degrees of the extensions: Fq2 over Fq, Fq6 over Fq2
Tower == <<2, 3>>

\* residues the coefficients of the extension elements are drawn from
Samples == {0, 1, 2, 5, 10}

RECURSIVE Elements(_)
Elements(h) ==
    IF h = 0 THEN Samples ELSE [1 .. Tower[h] -> Elements(h - 1)]

\* the elements of height k parity is applied to: every residue of Fq,
\* and the extension elements over Samples
Inputs(k) ==
    IF k = 0 THEN { [h |-> 0, v |-> x] : x \in 0 .. (Q - 1) }
    ELSE { [h |-> k, v |-> x] : x \in Elements(k) }

\* the coefficients over the prime field, lowest first
RECURSIVE FlattenFrom(_, _, _)
FlattenFrom(h, x, i) ==
    IF i > Len(x) THEN <<>>
    ELSE (IF h = 1 THEN <<x[i]>> ELSE FlattenFrom(h - 1, x[i], 1))
             \o FlattenFrom(h, x, i + 1)

to_base_prime_field_elements(h, x) ==
    IF h = 0 THEN <<x>> ELSE FlattenFrom(h, x, 1)

is_zero(h, x) ==
    \A i \in 1 .. Len(to_base_prime_field_elements(h, x)) :
        to_base_prime_field_elements(h, x)[i] = 0

\* parity: the oddness of the first non-zero coefficient of the element
\* represented over the prime field, false for zero
parity(h, x) ==
    LET es == to_base_prime_field_elements(h, x)
        nz == { i \in 1 .. Len(es) : es[i] # 0 }
    IN  IF nz = {} THEN FALSE
        ELSE es[CHOOSE i \in nz : \A j \in nz : i <= j] % 2 = 1

\* a test on Fq that takes parity for the sign (residue above (Q - 1) / 2)
test_prime_asserts_sign ==
    { [h |-> 0, v |-> 0, expect |-> FALSE],
      [h |-> 0, v |-> 1, expect |-> FALSE],
      [h |-> 0, v |-> 10, expect |-> TRUE] }

\* test_parity_of_prime_field_elements: element, asserted parity
test_parity_of_prime_field_elements ==
    { [h |-> 0, v |-> 0, expect |-> FALSE],
      [h |-> 0, v |-> 1, expect |-> TRUE],
      [h |-> 0, v |-> 10, expect |-> FALSE] }

\* a test on Fq2 that takes the parity of the highest coefficient
test_quadratic_asserts_highest ==
    { [h |-> 1, v |-> <<0, 1>>, expect |-> TRUE],
      [h |-> 1, v |-> <<1, 0>>, expect |-> FALSE],
      [h |-> 1, v |-> <<10, 5>>, expect |-> TRUE],
      [h |-> 1, v |-> <<5, 10>>, expect |-> FALSE] }

\* test_parity_of_quadratic_extension_elements
test_parity_of_quadratic_extension_elements ==
    { [h |-> 1, v |-> <<0, 1>>, expect |-> TRUE],
      [h |-> 1, v |-> <<1, 0>>, expect |-> TRUE],
      [h |-> 1, v |-> <<10, 5>>, expect |-> FALSE],
      [h |-> 1, v |-> <<5, 10>>, expect |-> TRUE] }

\* test_parity_of_cubic_extension_elements
test_parity_of_cubic_extension_elements ==
    LET a1 == <<0, 0>>
        a2 == <<0, 1>>
        a3 == <<1, 0>>
        a4 == <<1, 1>>
        a5 == <<0, 2>>
    IN  { [h |-> 2, v |-> <<a1, a2, a3>>, expect |-> TRUE],
          [h |-> 2, v |-> <<a2, a3, a4>>, expect |-> TRUE],
          [h |-> 2, v |-> <<a3, a4, a1>>, expect |-> TRUE],
          [h |-> 2, v |-> <<a4, a1, a2>>, expect |-> TRUE],
          [h |-> 2, v |-> <<a1, a5, a2>>, expect |-> FALSE] }

InitParity ==
    /\ pc = "element"
    /\ \E k \in 0 .. Len(Tower) : element \in Inputs(k)
    /\ bit = FALSE
    /\ a = <<>>
    /\ b = <<>>
    /\ c = <<>>
    /\ last = NoCall(<<>>, <<>>)
    /\ out = NoOut
    /\ ParIdle

\* parity(&element)
Parity ==
    /\ pc = "element"
    /\ bit' = parity(element.h, element.v)
    /\ pc' = "parity"
    /\ UNCHANGED <<element, a, b, c, last, out, parVars>>

NextParity == Parity

SpecParity == InitParity /\ [][NextParity]_vars

---------------------------------------------------------------------------
(* Vocabulary of the properties. *)

InPlaceOps == {"add_assign", "sub_assign", "mul_assign", "div_assign"}

ByValueOps == {"add", "sub", "mul", "div"}

ArithOps == {"add", "sub", "mul", "add_assign", "sub_assign", "mul_assign"}

DivOps == {"div", "div_assign"}

\* a binary operator has been called and has ended
CalledBinary == pc = "done" /\ last.op \in InPlaceOps \cup ByValueOps

SameDomain == last.lhs.domain = last.rhs.domain

WellFormed(e) == Len(e.evals) = e.domain.size

NoZeroEntry(v) == \A i \in 1 .. Len(v) : v[i] # FZero

\* the value the call produced: the left operand for +=, -=, *=, /=,
\* the returned value otherwise
Result == IF last.op \in InPlaceOps THEN a ELSE out.ret[1]

\* x + y, x - y, x * y in F, by the operator's name
Expected(op, x, y) ==
    CASE op \in {"add", "add_assign"} -> (x + y) % P
      [] op \in {"sub", "sub_assign"} -> (x - y) % P
      [] op \in {"mul", "mul_assign"} -> (x * y) % P

---------------------------------------------------------------------------
\* C1: whenever +, -, *, / or +=, -=, *=, /= is called on two values whose
\* domains are not equal (also two different domains of one size), the call
\* panics: nothing is returned and nothing is stored in the left operand.
C1_DomainMismatchFails ==
    (CalledBinary /\ ~SameDomain)
        => /\ out.panicked
           /\ out.ret = <<>>
           /\ a = last.lhs

\* C1 witness: a /= b failed on two different domains of the same size
C1_Witness ==
    /\ CalledBinary
    /\ last.op = "div_assign"
    /\ ~SameDomain
    /\ last.lhs.domain.size = last.rhs.domain.size
    /\ out.panicked

\* C2 as stated: every value satisfies evals.len() == domain.size() at all
\* times, and a binary call given an operand of the wrong length fails.
C2_Original ==
    /\ WellFormed(a)
    /\ WellFormed(b)
    /\ (CalledBinary /\ ~(WellFormed(last.lhs) /\ WellFormed(last.rhs)))
           => out.panicked

\* C2 amended: zero(domain) has domain.size() entries; every operator
\* leaves the length and the domain of its left operand as they were and
\* returns a value of that length and domain, so it keeps
\* evals.len() == domain.size() when the left operand has it; and over equal
\* domains no operator fails because of a length (only a zero divisor can
\* make / fail): from_vec_and_domain checks nothing and zip stops at the
\* shorter sequence.
C2_LengthPreserved ==
    /\ last.op = "zero" => WellFormed(b)
    /\ pc \in {"done", "doneA"}
           => /\ Len(a.evals) = Len(last.lhs.evals)
              /\ a.domain = last.lhs.domain
              /\ (WellFormed(last.lhs) => WellFormed(a))
              /\ (out.ret # <<>> /\ last.op # "index")
                     => /\ Len(out.ret[1].evals) = Len(last.lhs.evals)
                        /\ out.ret[1].domain = last.lhs.domain
    /\ (pc = "done" /\ SameDomain /\ last.zinv # Fault) => ~out.panicked

\* C2 witness: a += b went through although b is shorter than its domain
C2_Witness ==
    /\ CalledBinary
    /\ last.op = "add_assign"
    /\ SameDomain
    /\ WellFormed(last.lhs)
    /\ Len(last.rhs.evals) < last.rhs.domain.size
    /\ ~out.panicked
    /\ a # last.lhs

\* C5 as stated: over one domain the result of +, -, * has, at every index
\* of A, the entry A[i] op B[i]; the result of A * s has A[i] * s.
C5_Original ==
    /\ (pc = "done" /\ last.op \in ArithOps /\ SameDomain)
           => /\ ~out.panicked
              /\ Result.domain = last.lhs.domain
              /\ Len(Result.evals) = Len(last.lhs.evals)
              /\ \A i \in 1 .. Len(last.lhs.evals) :
                     /\ i <= Len(last.rhs.evals)
                     /\ Result.evals[i] =
                            Expected(last.op, last.lhs.evals[i],
                                     last.rhs.evals[i])
    /\ (pc = "doneA" /\ last.op = "mul_scalar")
           => /\ ~out.panicked
              /\ out.ret[1].domain = last.lhs.domain
              /\ Len(out.ret[1].evals) = Len(last.lhs.evals)
              /\ \A i \in 1 .. Len(last.lhs.evals) :
                     out.ret[1].evals[i] = (last.lhs.evals[i] * last.s) % P

\* C5 amended: the result has A's domain and A's number of entries; its
\* entry at every index i that both A and B have is A[i] op B[i], and an
\* entry of A at an index B does not have is left as it was (when both
\* have domain.size() entries that is every index); A * s has A[i] * s at
\* every index.
C5_Entrywise ==
    /\ (pc = "done" /\ last.op \in ArithOps /\ SameDomain)
           => /\ ~out.panicked
              /\ Result.domain = last.lhs.domain
              /\ Len(Result.evals) = Len(last.lhs.evals)
              /\ \A i \in 1 .. Len(last.lhs.evals) :
                     Result.evals[i] =
                         IF i <= Len(last.rhs.evals)
                         THEN Expected(last.op, last.lhs.evals[i],
                                       last.rhs.evals[i])
                         ELSE last.lhs.evals[i]
    /\ (pc = "doneA" /\ last.op = "mul_scalar")
           => /\ ~out.panicked
              /\ out.ret[1].domain = last.lhs.domain
              /\ Len(out.ret[1].evals) = Len(last.lhs.evals)
              /\ \A i \in 1 .. Len(last.lhs.evals) :
                     out.ret[1].evals[i] = (last.lhs.evals[i] * last.s) % P

\* C5 witness: &a - &b over one domain, two entries each, changed an entry
C5_Witness ==
    /\ pc = "done"
    /\ last.op = "sub"
    /\ SameDomain
    /\ Len(last.lhs.evals) = 2
    /\ Len(last.rhs.evals) = 2
    /\ ~out.panicked
    /\ out.ret[1].evals[2] # last.lhs.evals[2]

\* C6: over one domain and with no zero entry in B, A / B has at every
\* index both have the entry A[i] * B[i]^-1, and (A / B) * B equals A.
C6_DivMulInverse ==
    /\ (pc = "done" /\ last.op = "div_then_mul" /\ SameDomain
            /\ NoZeroEntry(last.rhs.evals))
           => /\ ~out.panicked
              /\ out.ret = <<last.lhs>>
    /\ (pc = "done" /\ last.op \in DivOps /\ SameDomain
            /\ NoZeroEntry(last.rhs.evals))
           => /\ ~out.panicked
              /\ Len(Result.evals) = Len(last.lhs.evals)
              /\ \A i \in 1 .. Len(last.lhs.evals) :
                     IF i <= Len(last.rhs.evals)
                     THEN \E y \in Field :
                              /\ (y * last.rhs.evals[i]) % P = 1
                              /\ Result.evals[i] =
                                     (last.lhs.evals[i] * y) % P
                     ELSE Result.evals[i] = last.lhs.evals[i]

\* C6 witness: (a / b) * b was computed with a divisor entry that is not
\* its own inverse
C6_Witness ==
    /\ pc = "done"
    /\ last.op = "div_then_mul"
    /\ SameDomain
    /\ NoZeroEntry(last.rhs.evals)
    /\ Len(last.lhs.evals) = 2
    /\ \E i \in 1 .. Len(last.rhs.evals) :
           (last.rhs.evals[i] * last.rhs.evals[i]) % P # 1
    /\ NoZeroEntry(last.lhs.evals)
    /\ out.ret = <<last.lhs>>

\* C7 as stated: an index >= domain.size() fails and an index below
\* domain.size() returns the stored entry, however the value was built.
C7_Original ==
    (pc = "doneA" /\ last.op = "index")
        => /\ last.idx >= last.lhs.domain.size => out.panicked
           /\ last.idx < last.lhs.domain.size
                  => /\ ~out.panicked
                     /\ out.ret = <<last.lhs.evals[last.idx + 1]>>

\* C7 amended: an index >= evals.len() fails and returns nothing, an index
\* below evals.len() returns the stored entry; the bound is the length of
\* the value sequence, which is domain.size() for a value that has
\* evals.len() == domain.size() (every value zero builds) and need not be
\* for a value from_vec_and_domain builds.
C7_IndexBounds ==
    (pc = "doneA" /\ last.op = "index")
        => /\ a = last.lhs
           /\ last.idx >= Len(last.lhs.evals)
                  => (out.panicked /\ out.ret = <<>>)
           /\ last.idx < Len(last.lhs.evals)
                  => /\ ~out.panicked
                     /\ out.ret = <<last.lhs.evals[last.idx + 1]>>
           /\ WellFormed(last.lhs)
                  => (out.panicked <=> last.idx >= last.lhs.domain.size)

\* C7 witness: indexing at evals.len() failed
C7_Witness ==
    /\ pc = "doneA"
    /\ last.op = "index"
    /\ WellFormed(last.lhs)
    /\ last.idx = last.lhs.domain.size
    /\ out.panicked

\* C10: a call of +=, -=, *=, /= on unequal domains fails with the left
\* operand (value sequence and domain) exactly as it was, and no operator
\* ever changes its right operand (/ and /= invert a copy of the divisor).
C10_FrameOnFailure ==
    pc = "done"
        => /\ b = last.rhs
           /\ (last.op \in InPlaceOps /\ ~SameDomain)
                  => (out.panicked /\ a.evals = last.lhs.evals
                          /\ a.domain = last.lhs.domain)

\* C10 witness: a /= b went through with a divisor entry that is not its
\* own inverse, and b is what it was
C10_Witness ==
    /\ pc = "done"
    /\ last.op = "div_assign"
    /\ SameDomain
    /\ ~out.panicked
    /\ \E i \in 1 .. Len(last.rhs.evals) :
           /\ last.rhs.evals[i] # FZero
           /\ (last.rhs.evals[i] * last.rhs.evals[i]) % P # 1
    /\ b = last.rhs

\* C9 as stated: for all A, B, C over one domain (A+B)+C = A+(B+C),
\* A+B = B+A, A*B = B*A and A-A = zero(domain).
C9_Original ==
    pc = "done3"
        => /\ out.ret[1] = out.ret[2]
           /\ out.ret[3] = out.ret[4]
           /\ out.ret[5] = out.ret[6]
           /\ out.ret[7] = out.ret[8]

\* C9 amended: the four laws hold for all A, B, C over one domain that have
\* domain.size() entries each, and zero(domain) has domain.size() entries,
\* every one the additive identity.
C9_RingLaws ==
    pc = "done3"
        => /\ Len(out.ret[8].evals) = a.domain.size
           /\ \A i \in 1 .. Len(out.ret[8].evals) :
                  out.ret[8].evals[i] = FZero
           /\ out.ret[8].domain = a.domain
           /\ (WellFormed(a) /\ WellFormed(b) /\ WellFormed(c))
                  => /\ out.ret[1] = out.ret[2]
                     /\ out.ret[3] = out.ret[4]
                     /\ out.ret[5] = out.ret[6]
                     /\ out.ret[7] = out.ret[8]

\* C9 witness: the laws were evaluated on three different values of two
\* non-zero entries each
C9_Witness ==
    /\ pc = "done3"
    /\ WellFormed(a) /\ WellFormed(b) /\ WellFormed(c)
    /\ a.domain.size = 2
    /\ NoZeroEntry(a.evals) /\ NoZeroEntry(b.evals) /\ NoZeroEntry(c.evals)
    /\ a # b /\ b # c /\ a # c
    /\ out.ret[3] = out.ret[4]
    /\ out.ret[3] # a

\* the entries of the loop's sequence when the workers are at positions pos
\* of a split cs, had every index been written by its own worker only
EntriesAt(cs, ps) ==
    [i \in 1 .. Len(last.lhs.evals) |->
        IF \E k \in DOMAIN ps : cs[k] < i /\ i <= ps[k]
        THEN closure(last.op, last.lhs.evals, work.ys, last.s, i)
        ELSE last.lhs.evals[i]]

\* C8: for every split of the index range over the workers and every
\* interleaving of their steps, the loop of +=, -=, *=, of the
\* multiplication step of /= and of scalar * ends with the value sequence
\* the one-worker loop gives; while it runs, an entry is written by the
\* worker of its chunk only, and the right operand is only read.
C8_ParallelEqualsSequential ==
    /\ pc = "loop"
           => /\ work.xs = EntriesAt(cut, pos)
              /\ a = last.lhs
              /\ b = last.rhs
    /\ (pc = "done" /\ last.op = "add_assign")
           => (a = add_assign(last.lhs, last.rhs).self /\ b = last.rhs)
    /\ (pc = "done" /\ last.op = "sub_assign")
           => (a = sub_assign(last.lhs, last.rhs).self /\ b = last.rhs)
    /\ (pc = "done" /\ last.op = "mul_assign")
           => (a = mul_assign(last.lhs, last.rhs).self /\ b = last.rhs)
    /\ (pc = "done" /\ last.op = "div_assign")
           => (a = div_assign(last.lhs, last.rhs, last.zinv).self
                   /\ b = last.rhs)
    /\ (pc = "done" /\ last.op = "mul_scalar")
           => (out.ret = mul_scalar(last.lhs, last.s).ret /\ a = last.lhs)

\* C8 witness: a += b with two workers, one entry each; the worker of the
\* second entry is through and the worker of the first has not started
C8_Witness ==
    /\ pc = "loop"
    /\ last.op = "add_assign"
    /\ cut = <<0, 1, 2>>
    /\ pos = <<0, 2>>
    /\ NoZeroEntry(last.rhs.evals)
    /\ work.xs[1] = last.lhs.evals[1]
    /\ work.xs[2] = (last.lhs.evals[2] + last.rhs.evals[2]) % P

\* the assertion of a test on the element, if the test has one
Asserted(tests) ==
    \A t \in tests :
        (t.h = element.h /\ t.v = element.v) => bit = t.expect

\* C3: the parity of an extension element with coefficients c0 .. ck-1 is
\* the parity of its first coefficient cj that is not zero (cj taken as an
\* element one level down, whatever its height), and false when every
\* coefficient is zero; this is what the tests on Fq2 and Fq6 assert.
C3_CompositeParity ==
    (pc = "parity" /\ element.h >= 1)
        => LET h == element.h
               cs == element.v
               nz == { j \in 1 .. Len(cs) : ~is_zero(h - 1, cs[j]) }
           IN  /\ nz = {} => bit = FALSE
               /\ nz # {}
                      => bit = parity(h - 1,
                                      cs[CHOOSE j \in nz :
                                            \A k \in nz : j <= k])
               /\ Asserted(test_parity_of_quadratic_extension_elements)
               /\ Asserted(test_parity_of_cubic_extension_elements)

\* C3 witness: an element of Fq6 whose first coefficient is zero and whose
\* second coefficient has its own first coefficient zero
C3_Witness ==
    /\ pc = "parity"
    /\ element.h = 2
    /\ element.v[1] = <<0, 0>>
    /\ element.v[2] = <<0, 2>>
    /\ element.v[3] = <<0, 1>>
    /\ bit = FALSE

\* C4: the parity of a prime-field element is the oddness of its least
\* non-negative residue, and parity(0) is false; this is what the test on
\* Fq asserts.
C4_PrimeParity ==
    (pc = "parity" /\ element.h = 0)
        => /\ bit = (element.v % 2 = 1)
           /\ element.v = 0 => bit = FALSE
           /\ Asserted(test_parity_of_prime_field_elements)

\* C4 witness: the largest residue, even, has parity false
C4_Witness ==
    /\ pc = "parity"
    /\ element.h = 0
    /\ element.v = Q - 1
    /\ bit = FALSE

====
